---- MODULE Spec2Model ----
(***************************************************************************)
(* Organization dashboard: the load chain of App (fetch, read text, parse, *)
(* map, store), the loading flag, the New Company stub and the cell        *)
(* renderers / date formatters of OrganizationsTable.                      *)
(*                                                                         *)
(* Text is a TLA+ string; the character at position i of s is              *)
(* SubSeq(s, i, i).  A JavaScript value is a tagged record: Undefined,     *)
(* Str(s), Num(n) or NaN.  A CSV text is the sequence of its lines, a line *)
(* the sequence of its fields; an empty line is the line <<"">>.           *)
(***************************************************************************)
EXTENDS Integers, Sequences, FiniteSets, TLC

VARIABLES
    csv,            \* content of /organizations.csv on the server
    tzOffset,       \* minutes east of UTC of the rendering environment
    strictDev,      \* TRUE: development build, StrictMode re-runs mount effects
    pc,             \* position of each load chain
    res,            \* the Response each chain's fetch resolved with
    text,           \* the body text each chain read
    organizations,  \* useState<Organization[]>([])
    loading,        \* useState(true)
    view,           \* what the last render put on screen
    clicks          \* number of 'New Company clicked' console lines

vars == <<csv, tzOffset, strictDev, pc, res, text, organizations, loading,
          view, clicks>>

---------------------------------------------------------------------------
(* Bounds *)

MaxRows == 2

MaxClicks == 2

\* data lines of the files the liveness specification starts from
MaxLiveRows == 1

---------------------------------------------------------------------------
(* JavaScript values *)

Undefined == [t |-> "undefined"]

Str(s) == [t |-> "string", s |-> s]

Num(n) == [t |-> "number", n |-> n]

NaN == [t |-> "NaN"]

IsStr(v) == v.t = "string"

\* JavaScript truthiness of a string-or-undefined value: undefined and ""
\* are falsy, every other string is truthy.
Truthy(v) == IsStr(v) /\ v.s # ""

CharAt(s, i) == IF i >= 1 /\ i <= Len(s) THEN SubSeq(s, i, i) ELSE ""

Digits == "0123456789"

IsDigit(c) == \E i \in 1..10 : SubSeq(Digits, i, i) = c

DigitVal(c) == (CHOOSE i \in 1..10 : SubSeq(Digits, i, i) = c) - 1

IsDigits(s) == \A i \in 1..Len(s) : IsDigit(CharAt(s, i))

RECURSIVE DecimalValue(_)
DecimalValue(s) ==
    IF s = "" THEN 0
    ELSE 10 * DecimalValue(SubSeq(s, 1, Len(s) - 1)) + DigitVal(CharAt(s, Len(s)))

RECURSIVE TrimLeft(_)
TrimLeft(s) == IF s # "" /\ CharAt(s, 1) = " " THEN TrimLeft(Tail(s)) ELSE s

RECURSIVE TrimRight(_)
TrimRight(s) ==
    IF s # "" /\ CharAt(s, Len(s)) = " "
    THEN TrimRight(SubSeq(s, 1, Len(s) - 1))
    ELSE s

Trim(s) == TrimRight(TrimLeft(s))

\* Number(v) for a string or undefined: undefined is NaN; a string is
\* trimmed of white space, the empty string is 0, a run of decimal digits
\* with an optional minus sign is its value, anything else is NaN.  (The
\* forms "+5", "1.5", "1e3", "0x1F" and "Infinity" are outside the alphabet
\* of the inputs below.)
Number(v) ==
    IF ~IsStr(v) THEN NaN
    ELSE LET s == Trim(v.s) IN
         IF s = "" THEN Num(0)
         ELSE IF IsDigits(s) THEN Num(DecimalValue(s))
         ELSE IF CharAt(s, 1) = "-" /\ Len(s) > 1 /\ IsDigits(Tail(s))
              THEN Num(0 - DecimalValue(Tail(s)))
         ELSE NaN

\* String(n) for a positive integer
String(n) == ToString(n)

---------------------------------------------------------------------------
(* Papa.parse(text, { header: true, skipEmptyLines: true }) *)

Min(a, b) == IF a < b THEN a ELSE b

Max(a, b) == IF a < b THEN b ELSE a

\* skipEmptyLines: true drops the lines that parse to one empty field
IsEmptyLine(line) == Len(line) = 1 /\ line[1] = ""

\* One data line as an object keyed by the header fields.  A line shorter
\* than the header leaves the trailing keys absent; the fields of a line
\* longer than the header go to __parsed_extra, which the mapping never
\* reads.  (Header names are distinct in every input below.)
RowObject(fields, line) ==
    LET n == Min(Len(fields), Len(line)) IN
    [key \in {fields[j] : j \in 1..n} |->
        line[CHOOSE j \in 1..n : fields[j] = key]]

\* result.data: empty lines are dropped, the first remaining line names the
\* fields, every later line is one row object, in document order.
PapaParse(txt) ==
    LET rows == SelectSeq(txt, LAMBDA l : ~IsEmptyLine(l)) IN
    IF rows = <<>> THEN <<>>
    ELSE [k \in 1..(Len(rows) - 1) |-> RowObject(rows[1], rows[k + 1])]

\* row.<key> : the field, or undefined when the object has no such key
Get(row, key) == IF key \in DOMAIN row THEN Str(row[key]) ELSE Undefined

\* MapRow with the id taken from the 0-based index itself
MapRow_zeroBasedId(row, idx) ==
    [id                       |-> String(idx),
     company_name             |-> Get(row, "company_name"),
     industry                 |-> Get(row, "industry"),
     size                     |-> Number(Get(row, "size")),
     status                   |-> Get(row, "status"),
     first_engagement         |-> Get(row, "first_engagement"),
     last_engagement          |-> Get(row, "last_engagement"),
     final_engagement_summary |-> Get(row, "final_engagement_summary"),
     icon_color               |-> Get(row, "icon_color")]

\* MapRow with the id counted on from the records already stored
MapRow_continuesIds(row, idx) ==
    [id                       |-> String(Len(organizations) + idx + 1),
     company_name             |-> Get(row, "company_name"),
     industry                 |-> Get(row, "industry"),
     size                     |-> Number(Get(row, "size")),
     status                   |-> Get(row, "status"),
     first_engagement         |-> Get(row, "first_engagement"),
     last_engagement          |-> Get(row, "last_engagement"),
     final_engagement_summary |-> Get(row, "final_engagement_summary"),
     icon_color               |-> Get(row, "icon_color")]

\* The mapping callback of result.data.map((row, idx) => ...), idx 0-based
MapRow(row, idx) ==
    [id                       |-> String(idx + 1),
     company_name             |-> Get(row, "company_name"),
     industry                 |-> Get(row, "industry"),
     size                     |-> Number(Get(row, "size")),
     status                   |-> Get(row, "status"),
     first_engagement         |-> Get(row, "first_engagement"),
     last_engagement          |-> Get(row, "last_engagement"),
     final_engagement_summary |-> Get(row, "final_engagement_summary"),
     icon_color               |-> Get(row, "icon_color")]

\* MapRows with the index argument of the callback stuck at 0
MapRows_sameIndex(data) == [k \in 1..Len(data) |-> MapRow(data[k], 0)]

\* rows = result.data.map(...)
MapRows(data) == [k \in 1..Len(data) |-> MapRow(data[k], k - 1)]

---------------------------------------------------------------------------
(* Dates: new Date(value).toLocaleDateString('en-US', {2-digit month,     *)
(* 2-digit day, numeric year})                                             *)

IsLeap(y) == (y % 4 = 0 /\ y % 100 # 0) \/ y % 400 = 0

DaysInMonth(y, m) ==
    IF m = 2 THEN (IF IsLeap(y) THEN 29 ELSE 28)
    ELSE IF m \in {4, 6, 9, 11} THEN 30 ELSE 31

\* number of leap years before year y
LeapsBefore(y) == ((y - 1) \div 4) - ((y - 1) \div 100) + ((y - 1) \div 400)

\* days from 1970-01-01 to January 1st of year y
DaysBeforeYear(y) == 365 * (y - 1970) + LeapsBefore(y) - LeapsBefore(1970)

RECURSIVE DaysBeforeMonth(_, _)
DaysBeforeMonth(y, m) ==
    IF m = 1 THEN 0 ELSE DaysBeforeMonth(y, m - 1) + DaysInMonth(y, m - 1)

\* days from 1970-01-01 to the civil date y-m-d
DaysFromCivil(y, m, d) == DaysBeforeYear(y) + DaysBeforeMonth(y, m) + (d - 1)

\* the civil date of day number n
CivilFromDays(n) ==
    LET a == n \div 366
        b == n \div 365
        y == CHOOSE yy \in (1970 + Min(a, b) - 1)..(1970 + Max(a, b) + 1) :
                 DaysBeforeYear(yy) <= n /\ n < DaysBeforeYear(yy + 1)
        r == n - DaysBeforeYear(y)
        m == CHOOSE mm \in 1..12 :
                 DaysBeforeMonth(y, mm) <= r
                 /\ r < DaysBeforeMonth(y, mm) + DaysInMonth(y, mm)
    IN [year |-> y, month |-> m, day |-> r - DaysBeforeMonth(y, m) + 1]

\* the date-only ISO form YYYY-MM-DD naming a day of the calendar
IsIsoDate(s) ==
    /\ Len(s) = 10
    /\ IsDigits(SubSeq(s, 1, 4)) /\ CharAt(s, 5) = "-"
    /\ IsDigits(SubSeq(s, 6, 7)) /\ CharAt(s, 8) = "-"
    /\ IsDigits(SubSeq(s, 9, 10))
    /\ DecimalValue(SubSeq(s, 1, 4)) >= 1000
    /\ DecimalValue(SubSeq(s, 6, 7)) \in 1..12
    /\ DecimalValue(SubSeq(s, 9, 10)) \in
           1..DaysInMonth(DecimalValue(SubSeq(s, 1, 4)),
                          DecimalValue(SubSeq(s, 6, 7)))

\* new Date(s): a date-only ISO string is midnight UTC of that day, in
\* minutes since the epoch; the other strings of the input alphabet ("n/a")
\* are no date and give the Invalid Date.
NewDate(s) ==
    IF IsIsoDate(s)
    THEN [valid |-> TRUE,
          minutes |-> 1440 * DaysFromCivil(DecimalValue(SubSeq(s, 1, 4)),
                                           DecimalValue(SubSeq(s, 6, 7)),
                                           DecimalValue(SubSeq(s, 9, 10)))]
    ELSE [valid |-> FALSE, minutes |-> 0]

Pad2(n) == IF n < 10 THEN "0" \o ToString(n) ELSE ToString(n)

\* date.toLocaleDateString('en-US', ...): the calendar day of the instant in
\* the local time zone, as MM/DD/YYYY; the Invalid Date gives "Invalid Date".
ToLocaleDateString(date, offset) ==
    IF ~date.valid THEN "Invalid Date"
    ELSE LET c == CivilFromDays((date.minutes + offset) \div 1440) IN
         Pad2(c.month) \o "/" \o Pad2(c.day) \o "/" \o ToString(c.year)

\* valueFormatter without its first line, if (!params.value) return ''
valueFormatter_noGuard(value, offset) ==
    ToLocaleDateString(IF IsStr(value) THEN NewDate(value.s)
                       ELSE [valid |-> FALSE, minutes |-> 0], offset)

\* valueFormatter of the first_engagement and last_engagement columns
valueFormatter(value, offset) ==
    IF ~Truthy(value) THEN ""
    ELSE ToLocaleDateString(NewDate(value.s), offset)

---------------------------------------------------------------------------
(* Cell renderers of OrganizationsTable *)

Lower == "abcdefghijklmnopqrstuvwxyz"

Upper == "ABCDEFGHIJKLMNOPQRSTUVWXYZ"

\* c.toUpperCase() for one character
ToUpperCase(c) ==
    IF \E i \in 1..Len(Lower) : SubSeq(Lower, i, i) = c
    THEN LET i == CHOOSE j \in 1..Len(Lower) : SubSeq(Lower, j, j) = c
         IN SubSeq(Upper, i, i)
    ELSE c

\* AvatarBackground without the || '#666' default
AvatarBackground_noFallback(org) ==
    IF IsStr(org.icon_color) THEN org.icon_color.s ELSE ""

\* style.backgroundColor of the avatar: props.data.icon_color || '#666'
AvatarBackground(org) ==
    IF Truthy(org.icon_color) THEN org.icon_color.s ELSE "#666"

\* CompanyNameCellRenderer: props.value is the row's company_name;
\* props.value.charAt(0) on undefined raises a TypeError.
CompanyNameCellRenderer(org) ==
    IF ~IsStr(org.company_name)
    THEN [error |-> TRUE]
    ELSE [error      |-> FALSE,
          background |-> AvatarBackground(org),
          letter     |-> ToUpperCase(CharAt(org.company_name.s, 1)),
          name       |-> org.company_name.s]

\* StatusCellRenderer: the value unchanged inside the badge (undefined
\* renders as no text)
StatusCellRenderer(value) == IF IsStr(value) THEN value.s ELSE ""

\* the cells of one grid row that have a renderer or a formatter
RenderRow(org, offset) ==
    [company_name     |-> CompanyNameCellRenderer(org),
     status           |-> StatusCellRenderer(org.status),
     first_engagement |-> valueFormatter(org.first_engagement, offset),
     last_engagement  |-> valueFormatter(org.last_engagement, offset)]

\* What App returns for the state (loading, organizations): the Loading...
\* screen, or the layout with the table, whose data prop is the record
\* sequence and whose rows are its rendered cells.  A renderer that throws
\* has no error boundary above it, so React unmounts the root: "crashed".
Screen(isLoading, orgs, offset) ==
    IF isLoading THEN [screen |-> "loading", data |-> <<>>, rows |-> <<>>]
    ELSE IF \E k \in 1..Len(orgs) : CompanyNameCellRenderer(orgs[k]).error
         THEN [screen |-> "crashed", data |-> <<>>, rows |-> <<>>]
         ELSE [screen |-> "table", data |-> orgs,
               rows |-> [k \in 1..Len(orgs) |-> RenderRow(orgs[k], offset)]]

---------------------------------------------------------------------------
(* Inputs: what the server can hold at /organizations.csv, what it can     *)
(* answer, and where the page can be rendered                              *)

Header ==
    <<"company_name", "industry", "size", "status", "first_engagement",
      "last_engagement", "final_engagement_summary", "icon_color">>

DataLines ==
    { <<"Aerospace", "SAAS", "2000", "Active", "2025-02-06", "2025-10-06",
        "On June 12", "#9333EA">>,
      <<"finance", "SAAS", "150", "Inactive", "2024-03-01", "2025-01-01",
        "None", "#14B8A6">>,
      <<"Retail", "SAAS", "abc", "Active", "2025-02-06", "2024-03-01",
        "None", "">>,
      <<"", "SAAS", "", "Active", "", "n/a", "None">>,
      <<"Mining", "SAAS", " ">>,
      <<"">> }

\* a page that is no CSV: an error page, or the index page a development
\* server answers with for a path it has no file for
HtmlPage == << <<"<!doctype html>">>, <<"<html>">>, <<"</html>">> >>

SeqsUpTo(S, n) == UNION {[1..k -> S] : k \in 0..n}

CsvFiles ==
    {<<Header>> \o body : body \in SeqsUpTo(DataLines, MaxRows)}
        \cup {<<>>, HtmlPage}

\* bodies of a non-success answer (404, 500)
ErrorBodies == {HtmlPage}

\* minutes east of UTC: New York (EST), UTC, India
Offsets == {-300, 0, 330}

Chains == 1..2

---------------------------------------------------------------------------
(* State machine *)

NoResponse == [status |-> "none", body |-> <<>>]

Init ==
    /\ csv \in CsvFiles
    /\ tzOffset \in Offsets
    /\ strictDev \in BOOLEAN
    /\ pc = [c \in Chains |-> "idle"]
    /\ res = [c \in Chains |-> NoResponse]
    /\ text = [c \in Chains |-> <<>>]
    /\ organizations = <<>>
    /\ loading = TRUE
    /\ view = Screen(TRUE, <<>>, tzOffset)
    /\ clicks = 0

\* a state setter of a component whose root was unmounted changes nothing
Mounted == view.screen # "crashed"

\* useEffect(() => { fetch('/organizations.csv')... }, []) after the first
\* commit; under StrictMode in a development build React runs the mount
\* effect, simulates an unmount (there is no cleanup) and runs it again.
useEffect ==
    /\ \A c \in Chains : pc[c] = "idle"
    /\ pc' = [c \in Chains |->
                IF c = 1 \/ strictDev THEN "fetching" ELSE "idle"]
    /\ UNCHANGED <<csv, tzOffset, strictDev, res, text,
                   organizations, loading, view, clicks>>

\* fetch resolves: with the file, or with a non-success answer (fetch
\* resolves for every HTTP status)
FetchResolve(c) ==
    /\ pc[c] = "fetching"
    /\ \E r \in {[status |-> "ok", body |-> csv]}
                  \cup {[status |-> "notok", body |-> b] : b \in ErrorBodies} :
           res' = [res EXCEPT ![c] = r]
    /\ pc' = [pc EXCEPT ![c] = "reading"]
    /\ UNCHANGED <<csv, tzOffset, strictDev, text, organizations,
                   loading, view, clicks>>

\* fetch rejects (network error): both .then callbacks are skipped
FetchReject(c) ==
    /\ pc[c] = "fetching"
    /\ res' = [res EXCEPT ![c] = [status |-> "rejected", body |-> <<>>]]
    /\ pc' = [pc EXCEPT ![c] = "rejected"]
    /\ UNCHANGED <<csv, tzOffset, strictDev, text, organizations,
                   loading, view, clicks>>

\* .then((res) => res.text()) resolves with the body, whatever res.ok is
TextResolve(c) ==
    /\ pc[c] = "reading"
    /\ text' = [text EXCEPT ![c] = res[c].body]
    /\ pc' = [pc EXCEPT ![c] = "parsing"]
    /\ UNCHANGED <<csv, tzOffset, strictDev, res, organizations,
                   loading, view, clicks>>

\* res.text() rejects (the connection drops while the body is read)
TextReject(c) ==
    /\ pc[c] = "reading"
    /\ pc' = [pc EXCEPT ![c] = "rejected"]
    /\ UNCHANGED <<csv, tzOffset, strictDev, res, text,
                   organizations, loading, view, clicks>>

\* ThenParse written as setOrganizations((prev) => [...prev, ...rows])
ThenParse_patches(c) ==
    /\ pc[c] = "parsing"
    /\ \E data \in {PapaParse(text[c])} :
           organizations' = IF Mounted THEN organizations \o MapRows(data)
                            ELSE organizations
    /\ pc' = [pc EXCEPT ![c] = "fulfilled"]
    /\ UNCHANGED <<csv, tzOffset, strictDev, res, text, loading, view,
                   clicks>>

\* .then((text) => { Papa.parse; map; setOrganizations(rows) })
ThenParse(c) ==
    /\ pc[c] = "parsing"
    /\ \E data \in {PapaParse(text[c])} :
           organizations' = IF Mounted THEN MapRows(data) ELSE organizations
    /\ pc' = [pc EXCEPT ![c] = "fulfilled"]
    /\ UNCHANGED <<csv, tzOffset, strictDev, res, text, loading, view,
                   clicks>>

\* Finally written as .then(() => setLoading(false)): skipped on rejection
Finally_thenOnly(c) ==
    /\ pc[c] \in {"fulfilled", "rejected"}
    /\ loading' = IF Mounted /\ pc[c] = "fulfilled" THEN FALSE ELSE loading
    /\ pc' = [pc EXCEPT ![c] = IF pc[c] = "fulfilled" THEN "done"
                               ELSE "unhandled"]
    /\ UNCHANGED <<csv, tzOffset, strictDev, res, text,
                   organizations, view, clicks>>

\* Finally written as setLoading((l) => !l)
Finally_toggles(c) ==
    /\ pc[c] \in {"fulfilled", "rejected"}
    /\ loading' = IF Mounted THEN ~loading ELSE loading
    /\ pc' = [pc EXCEPT ![c] = IF pc[c] = "fulfilled" THEN "done"
                               ELSE "unhandled"]
    /\ UNCHANGED <<csv, tzOffset, strictDev, res, text,
                   organizations, view, clicks>>

\* .finally(() => setLoading(false)): runs after fulfilment and after
\* rejection; the promise it returns keeps the rejection, and the chain has
\* no .catch, so a rejection ends as an unhandled rejection.
Finally(c) ==
    /\ pc[c] \in {"fulfilled", "rejected"}
    /\ loading' = IF Mounted THEN FALSE ELSE loading
    /\ pc' = [pc EXCEPT ![c] = IF pc[c] = "fulfilled" THEN "done"
                               ELSE "unhandled"]
    /\ UNCHANGED <<csv, tzOffset, strictDev, res, text,
                   organizations, view, clicks>>

\* React re-renders App after a state change
Render ==
    /\ Mounted
    /\ \E next \in {Screen(loading, organizations, tzOffset)} :
           view # next /\ view' = next
    /\ UNCHANGED <<csv, tzOffset, strictDev, pc, res, text,
                   organizations, loading, clicks>>

\* handleNewCompany that also adds a blank row to the record sequence
handleNewCompany_addsRow ==
    /\ clicks' = clicks + 1
    /\ organizations' =
           Append(organizations, MapRow(<<>>, Len(organizations)))
    /\ UNCHANGED <<csv, tzOffset, strictDev, pc, res, text, loading, view>>

\* handleNewCompany: console.log('New Company clicked') and nothing else
handleNewCompany ==
    /\ clicks' = clicks + 1
    /\ UNCHANGED <<csv, tzOffset, strictDev, pc, res, text,
                   organizations, loading, view>>

\* the New Company button of the table, onClick={onNewCompany}; the button
\* exists once the table is on screen
NewCompanyClick ==
    /\ view.screen = "table"
    /\ clicks < MaxClicks
    /\ handleNewCompany

Next ==
    \/ useEffect
    \/ \E c \in Chains : FetchResolve(c)
    \/ \E c \in Chains : FetchReject(c)
    \/ \E c \in Chains : TextResolve(c)
    \/ \E c \in Chains : TextReject(c)
    \/ \E c \in Chains : ThenParse(c)
    \/ \E c \in Chains : Finally(c)
    \/ Render
    \/ NewCompanyClick

Spec == Init /\ [][Next]_vars

\* The event loop keeps running what is pending: the mount effect after the
\* first commit, the settlement of a fetch or of a body read (one way or the
\* other) and queued promise callbacks.  Nothing is assumed of renders and
\* clicks.
Progress ==
    \/ useEffect
    \/ \E c \in Chains : FetchResolve(c) \/ FetchReject(c)
    \/ \E c \in Chains : TextResolve(c) \/ TextReject(c)
    \/ \E c \in Chains : ThenParse(c)
    \/ \E c \in Chains : Finally(c)

Fairness == WF_vars(Progress)

\* The liveness specification starts from the files of at most MaxLiveRows
\* data lines, every other input as in Init.
InitLive == Init /\ Len(csv) <= MaxLiveRows + 1

LiveSpec == InitLive /\ [][Next]_vars /\ Fairness

---------------------------------------------------------------------------
(* Properties *)

\* the chains whose effect has started them
Started == {c \in Chains : pc[c] # "idle"}

\* the chains whose .then callback has called setOrganizations
Stored == {c \in Chains : pc[c] \in {"fulfilled", "done"}}

\* C1: once the mount effect has started the load chain, the loading state
\* eventually becomes Ready, whether the fetch resolves or rejects, the
\* body read resolves or rejects, and whatever the parsed text is.
C1_EventuallyReady == (pc[1] = "fetching") ~> (loading = FALSE)

\* C1 witness: Ready was reached by a chain whose body read rejected
C1_Witness ==
    /\ loading = FALSE
    /\ ~strictDev
    /\ pc[1] = "unhandled"
    /\ res[1].status = "ok"

\* C2: the loading state starts as Loading, and no step takes it from
\* Ready back to Loading.
C2_ReadyIsStable ==
    /\ loading = TRUE
    /\ [][(loading = FALSE) => (loading' = FALSE)]_vars

\* C2 witness: Ready, with a later load completion and a click behind it
C2_Witness ==
    /\ loading = FALSE
    /\ clicks > 0
    /\ \A c \in Chains : pc[c] \in {"done", "unhandled"}
    /\ view.screen = "table"

\* a file with the documented header whose data lines are all complete:
\* eight fields, a decimal size; empty lines may stand between them
WellFormed(file) ==
    /\ file # <<>>
    /\ file[1] = Header
    /\ \A i \in 2..Len(file) :
           \/ file[i] = <<"">>
           \/ /\ Len(file[i]) = Len(Header)
              /\ file[i][3] # ""
              /\ IsDigits(file[i][3])

\* the data lines of a file that starts with its header line: the lines
\* after the first that are not empty
DataLinesOf(file) == SelectSeq(Tail(file), LAMBDA l : l # <<"">>)

\* the record the k-th complete data line d stands for
RecordOf(d, k) ==
    [id                       |-> ToString(k),
     company_name             |-> Str(d[1]),
     industry                 |-> Str(d[2]),
     size                     |-> Num(DecimalValue(d[3])),
     status                   |-> Str(d[4]),
     first_engagement         |-> Str(d[5]),
     last_engagement          |-> Str(d[6]),
     final_engagement_summary |-> Str(d[7]),
     icon_color               |-> Str(d[8])]

\* every load that has stored so far was a load of the file itself
OnlyFileStored == Stored # {} /\ \A c \in Stored : res[c].status = "ok"

\* C3: after a successful load of a well-formed file with N data rows the
\* record sequence has N elements, the k-th with id k and the fields of the
\* k-th data row; with N = 0 it is empty; and the view has not failed.
C3_LoadedInRowOrder ==
    (OnlyFileStored /\ WellFormed(csv)) =>
        /\ Len(organizations) = Len(DataLinesOf(csv))
        /\ \A k \in 1..Len(organizations) :
               organizations[k] = RecordOf(DataLinesOf(csv)[k], k)
        /\ view.screen # "crashed"

\* C3 witness: two different rows loaded in order and on screen
C3_Witness ==
    /\ OnlyFileStored
    /\ WellFormed(csv)
    /\ Len(csv) = 3
    /\ Len(organizations) = 2
    /\ organizations[1].id = "1" /\ organizations[2].id = "2"
    /\ organizations[1].company_name # organizations[2].company_name
    /\ view.screen = "table" /\ Len(view.rows) = 2

\* the case N = 0 of C3: a header-only file, loaded and on screen
C3_WitnessEmpty ==
    /\ OnlyFileStored
    /\ csv = <<Header>>
    /\ organizations = <<>>
    /\ view.screen = "table"

\* the fetch of chain c failed: it rejected, or the answer was no success
FetchFailed(c) == res[c].status \in {"rejected", "notok"}

\* C4 as claimed: when every fetch that was started has failed (network
\* error or non-success answer), the record sequence is empty whenever the
\* loading state is Ready.
C4_FetchFailureLeavesEmpty ==
    (loading = FALSE /\ Started # {} /\ \A c \in Started : FetchFailed(c))
        => organizations = <<>>

\* C5 as claimed: no load outcome takes the load chain or the rendering to
\* an error state: no chain ends in an unhandled rejection and no render
\* throws.
C5_NoErrorState ==
    /\ \A c \in Chains : pc[c] # "unhandled"
    /\ view.screen # "crashed"

\* the part of C5 about rendering alone: no render of loaded records throws
C5_NoRenderError == view.screen # "crashed"

\* the size text of a data line under the documented header, or undefined
SizeField(line) == IF Len(line) >= 3 THEN Str(line[3]) ELSE Undefined

\* text that is no number: absent, empty, white space only, or holding a
\* character that is neither a digit nor a leading minus sign
NotNumericText(v) ==
    \/ ~IsStr(v)
    \/ Trim(v.s) = ""
    \/ Trim(v.s) = "-"
    \/ ~IsDigits(IF CharAt(Trim(v.s), 1) = "-" THEN Tail(Trim(v.s))
                 ELSE Trim(v.s))

\* C6 as claimed: after a load of a file with the documented header, every
\* data row is kept, and a row whose size text is not numeric has the
\* not-a-number sentinel as its size.
C6_NonNumericSizeIsNaN ==
    (OnlyFileStored /\ csv # <<>> /\ csv[1] = Header) =>
        /\ Len(organizations) = Len(DataLinesOf(csv))
        /\ \A k \in 1..Len(organizations) :
               NotNumericText(SizeField(DataLinesOf(csv)[k]))
                   => organizations[k].size = NaN

\* what C7 expects of an ISO date: MM/DD/YYYY with the digits of the input
Reformatted(iso) ==
    SubSeq(iso, 6, 7) \o "/" \o SubSeq(iso, 9, 10) \o "/" \o SubSeq(iso, 1, 4)

\* C7 as claimed: on the table, each date cell of an ISO date shows the
\* same year, month and day as the record, in every time zone.
C7_DateSameDay ==
    (view.screen = "table") =>
        \A k \in 1..Len(view.data) :
            /\ (IsStr(view.data[k].first_engagement)
                /\ IsIsoDate(view.data[k].first_engagement.s))
                   => view.rows[k].first_engagement
                          = Reformatted(view.data[k].first_engagement.s)
            /\ (IsStr(view.data[k].last_engagement)
                /\ IsIsoDate(view.data[k].last_engagement.s))
                   => view.rows[k].last_engagement
                          = Reformatted(view.data[k].last_engagement.s)

\* a date cell that is text of one of the three forms the formatter has
IsDateCellText(cell) ==
    \/ cell = ""
    \/ cell = "Invalid Date"
    \/ /\ Len(cell) = 10
       /\ IsDigits(SubSeq(cell, 1, 2)) /\ CharAt(cell, 3) = "/"
       /\ IsDigits(SubSeq(cell, 4, 5)) /\ CharAt(cell, 6) = "/"
       /\ IsDigits(SubSeq(cell, 7, 10))

\* the value is undefined or the empty string
Missing(v) == v = Undefined \/ v = Str("")

\* C8: on the table every date cell is text, whatever the field holds, and
\* it is the empty string exactly when the field is empty or missing.
C8_DateCellIsText ==
    (view.screen = "table") =>
        \A k \in 1..Len(view.data) :
            /\ IsDateCellText(view.rows[k].first_engagement)
            /\ IsDateCellText(view.rows[k].last_engagement)
            /\ Missing(view.data[k].first_engagement)
                   <=> view.rows[k].first_engagement = ""
            /\ Missing(view.data[k].last_engagement)
                   <=> view.rows[k].last_engagement = ""

\* C8 witness: a missing date, an empty date and a date that is no date on
\* screen
C8_Witness ==
    /\ view.screen = "table"
    /\ \E k \in 1..Len(view.data) :
           /\ view.data[k].first_engagement = Undefined
           /\ view.rows[k].first_engagement = ""
    /\ \E k \in 1..Len(view.data) :
           /\ view.data[k].first_engagement = Str("")
           /\ view.rows[k].first_engagement = ""
    /\ \E k \in 1..Len(view.data) :
           /\ view.data[k].last_engagement = Str("n/a")
           /\ view.rows[k].last_engagement = "Invalid Date"

\* C9: a New Company click changes neither the record sequence nor the
\* loading state.
C9_ClickChangesNothing ==
    [][(clicks' # clicks) =>
           (organizations' = organizations /\ loading' = loading)]_vars

\* C9 witness: clicked as often as the bound allows, with records loaded
\* and a second load still on its way
C9_Witness ==
    /\ clicks = MaxClicks
    /\ organizations # <<>>
    /\ \E c \in Chains : pc[c] \in {"fetching", "reading", "parsing"}

\* C10: on the table the avatar background of a record is its icon_color,
\* and the default gray when the icon_color is absent or empty.
C10_AvatarBackground ==
    (view.screen = "table") =>
        \A k \in 1..Len(view.data) :
            view.rows[k].company_name.background =
                IF Missing(view.data[k].icon_color) THEN "#666"
                ELSE view.data[k].icon_color.s

\* C10 witness: an absent and an empty icon_color on screen
C10_Witness ==
    /\ view.screen = "table"
    /\ \E k \in 1..Len(view.data) :
           /\ view.data[k].icon_color = Undefined
           /\ view.rows[k].company_name.background = "#666"
    /\ \E k \in 1..Len(view.data) :
           /\ view.data[k].icon_color = Str("")
           /\ view.rows[k].company_name.background = "#666"

\* C11: a load of the same text as an earlier load yields the same record
\* sequence, ids included: when a chain stores its records and another chain
\* has already stored the records of the same text, the stored sequence is
\* left equal, field by field, to what it was.
C11_SameContentSameRecords ==
    [][\A c \in Chains :
           (/\ pc[c] = "parsing" /\ pc'[c] = "fulfilled"
            /\ Mounted
            /\ \E d \in Stored : text[d] = text[c])
               => organizations' = organizations]_vars

\* C11 witness: both chains have loaded the same two-row file
C11_Witness ==
    /\ Stored = Chains
    /\ text[1] = text[2]
    /\ res[1].status = "ok" /\ res[2].status = "ok"
    /\ Len(organizations) = 2
    /\ organizations[1].id = "1" /\ organizations[2].id = "2"

\* the complete output of the load of chain c: the records of its text
OutputOf(c) == MapRows(PapaParse(text[c]))

\* C12: the stored record sequence is always the initial empty sequence or
\* the complete output of one load, and every step that changes it is the
\* store of one chain putting that chain's complete output in its place.
C12_ReplacedWholesale ==
    /\ [](organizations = <<>>
            \/ \E c \in Stored : organizations = OutputOf(c))
    /\ [][organizations' # organizations =>
               \E c \in Chains :
                   /\ pc[c] = "parsing" /\ pc'[c] = "fulfilled"
                   /\ organizations' = OutputOf(c)]_vars

\* C12 witness: a second load with another output has replaced the records
\* of the first
C12_Witness ==
    /\ Stored = Chains
    /\ OutputOf(1) # <<>>
    /\ OutputOf(2) # <<>>
    /\ OutputOf(1) # OutputOf(2)
    /\ organizations = OutputOf(2)
    /\ loading = FALSE

\* C13: no two records of the stored sequence have the same id, whatever
\* text was loaded.
C13_IdsUnique ==
    \A i, j \in 1..Len(organizations) :
        i # j => organizations[i].id # organizations[j].id

\* C13 witness: two records from a text that is no CSV, each row without any
\* of the documented fields, with different ids
C13_Witness ==
    /\ Len(organizations) = 2
    /\ organizations[1].company_name = Undefined
    /\ organizations[2].company_name = Undefined
    /\ organizations[1].id = "1" /\ organizations[2].id = "2"
    /\ \E c \in Stored : text[c] = HtmlPage

\* C14 as claimed: in a session the load chain is started at most once and
\* the record sequence is stored at most once: there is no second fetch and
\* no later replacement of the records.
C14_LoadedOnce ==
    /\ \A c, d \in Started : c = d
    /\ \A c, d \in Stored : c = d

\* the successful loads that have read a text of at least one row and have
\* not stored its records yet
RowsPending ==
    {c \in Chains : pc[c] = "parsing" /\ Len(PapaParse(text[c])) >= 1}

\* C15 as claimed: the loading state is never Ready while the record
\* sequence is still the initial empty one (no load has stored) and a
\* successful load holds a text of at least one row.
C15_StoredBeforeReady ==
    ~(/\ loading = FALSE
      /\ Stored = {}
      /\ organizations = <<>>
      /\ RowsPending # {})

====
